---- MODULE Spec2Model ----
(***************************************************************************)
(* Model of model/activist.go: the activist data-access layer.             *)
(*                                                                         *)
(* Encodings.  A name is modelled by its rank in the collation order of    *)
(* the name column: rank 0 is the empty string "", the smallest string,    *)
(* and the test  name != ""  of the source is  name # EmptyName.  An event *)
(* is modelled by its date (events are numbered in date order).  An        *)
(* optional time (a time.Time pointer) is <<>> for nil, <<d>> for date d.  *)
(* Every statement sent to the store may fail (the err != nil branches):   *)
(* the actions draw the outcome  fail \in BOOLEAN.                         *)
(***************************************************************************)
EXTENDS Integers, Sequences, FiniteSets, TLC

\* ---------------------------------------------------------------- bounds
MaxName == 2
MaxRows == 3
MaxLimit == 2
MaxOrder == 3
MaxEvents == 2
MaxInserts == 2

Names == 0..MaxName
Ids == 1..MaxRows
Events == 1..MaxEvents
Orders == 0..MaxOrder
Limits == -1..MaxLimit
Procs == 1..2

\* -------------------------------------------------------------- constants
descOrder == 2
ascOrder == 1
\* the empty string "" of  name != ""
EmptyName == 0

VARIABLES
    activists,    \* table activists: id -> committed row
    nextId,       \* AUTO_INCREMENT counter of activists.id
    attendance,   \* tables event_attendance/events: activist id -> events attended
    uniqueName,   \* whether the store enforces a unique key on activists.name
    pc,           \* GetOrCreateUser: position of each caller
    arg,          \* GetOrCreateUser: the name each caller passed
    tx,           \* GetOrCreateUser: rows written in the caller's open transaction
    newUser,      \* GetOrCreateUser: the local newUser
    ret,          \* GetOrCreateUser: what the call returned
    hist,         \* GetOrCreateUser: what the call observed and did (history)
    made,         \* GetOrCreateUser: name -> id of the first row a call created for it (history)
    resp,         \* the outstanding response of a single-statement operation
    pg            \* a client paging through GetUserRangeJSON

vars == <<activists, nextId, attendance, uniqueName, pc, arg, tx, newUser, ret, hist, made, resp, pg>>
storeVars == <<activists, nextId, attendance, uniqueName>>
gocVars == <<pc, arg, tx, newUser, ret, hist, made>>

\* ------------------------------------------------------------------ types
NullString == [Valid |-> FALSE, String |-> ""]

\* The row INSERT INTO activists (name) VALUES (?) creates: column defaults.
DefaultRow(name) ==
    [name |-> name, email |-> "", chapter |-> "", phone |-> "",
     location |-> NullString, facebook |-> "", activist_level |-> "",
     exclude_from_leaderboard |-> 0, core_staff |-> 0,
     global_team_member |-> 0, liberation_pledge |-> 0]

\* The columns UPDATE activists SET ... writes.
MutableFields ==
    {"name", "email", "chapter", "phone", "location", "facebook", "activist_level",
     "exclude_from_leaderboard", "core_staff", "global_team_member", "liberation_pledge"}

\* struct User, scanned from selectUserBaseQuery (liberation_pledge is not selected).
User(id, row) ==
    [ID |-> id, Name |-> row.name, Email |-> row.email, Chapter |-> row.chapter,
     Phone |-> row.phone, Location |-> row.location, Facebook |-> row.facebook,
     LiberationPledge |-> 0]

ZeroUser == User(0, DefaultRow(EmptyName))

\* ---------------------------------------------------------------- helpers
Min(a, b) == IF a < b THEN a ELSE b

SetMin(S) == CHOOSE x \in S : \A y \in S : x <= y

SetMax(S) == CHOOSE x \in S : \A y \in S : x >= y

RECURSIVE SortAsc(_)
SortAsc(S) == IF S = {} THEN <<>> ELSE <<SetMin(S)>> \o SortAsc(S \ {SetMin(S)})

RECURSIVE SortDesc(_)
SortDesc(S) == IF S = {} THEN <<>> ELSE <<SetMax(S)>> \o SortDesc(S \ {SetMax(S)})

RECURSIVE SetSum(_, _)
SetSum(f, S) == IF S = {} THEN 0 ELSE LET x == CHOOSE y \in S : TRUE IN f[x] + SetSum(f, S \ {x})

\* ------------------------------------------------------------- the store
\* Rows a reader sees: the committed table, and inside a transaction also its own writes.
Visible(table, own) == [i \in (DOMAIN table) \cup (DOMAIN own) |-> IF i \in DOMAIN own THEN own[i] ELSE table[i]]

NoRows == [i \in {} |-> DefaultRow(EmptyName)]

IdsNamed(table, name) == {i \in DOMAIN table : table[i].name = name}

\* getUsers' ORDER BY name (rows of one name in id order).
RowLess(table, i, j) == table[i].name < table[j].name \/ (table[i].name = table[j].name /\ i < j)

RECURSIVE OrderByName(_, _)
OrderByName(table, S) ==
    IF S = {} THEN <<>>
    ELSE LET m == CHOOSE i \in S : \A j \in S \ {i} : RowLess(table, i, j)
         IN <<m>> \o OrderByName(table, S \ {m})

\* MIN(e.date), MAX(e.date), COUNT(e.id) over the joined rows of the activists in S.
FirstEventOf(att, S) == LET E == UNION {att[i] : i \in S} IN IF E = {} THEN <<>> ELSE <<SetMin(E)>>

LastEventOf(att, S) == LET E == UNION {att[i] : i \in S} IN IF E = {} THEN <<>> ELSE <<SetMax(E)>>

TotalEventsOf(att, S) == SetSum([i \in S |-> Cardinality(att[i])], S)

\* ------------------------------------------------------- status policy
Now == MaxEvents + 1
LapsedAfter == 1
ActiveFrom == 2

\* getStatus lives outside activist.go; this is the policy the specification asks for:
\* an enumerated, human-readable label derived from the three aggregates.
getStatus(firstEvent, lastEvent, totalEvents) ==
    IF firstEvent = <<>> \/ lastEvent = <<>> THEN "no-events"
    ELSE IF Now - lastEvent[1] > LapsedAfter THEN "lapsed"
    ELSE IF totalEvents < ActiveFrom THEN "new"
    ELSE "active"

\* ------------------------------------------------------------ read model
\* struct UserExtra, scanned from selectUserExtraBaseQuery; Status is not a column.
UserExtra(id, row, first, last, total, status) ==
    [ID |-> id, Name |-> row.name, Email |-> row.email, Chapter |-> row.chapter,
     Phone |-> row.phone, Location |-> row.location, Facebook |-> row.facebook,
     LiberationPledge |-> row.liberation_pledge,
     FirstEvent |-> first, LastEvent |-> last, TotalEvents |-> total, Status |-> status,
     CoreStaff |-> row.core_staff, ExcludeFromLeaderboard |-> row.exclude_from_leaderboard,
     GlobalTeamMember |-> row.global_team_member, ActivistLevel |-> row.activist_level]

\* time.Format(EventDateLayout)
Format(t) == "date-" \o ToString(t[1])

buildUserJSON(u) ==
    [id |-> u.ID, name |-> u.Name, email |-> u.Email, chapter |-> u.Chapter,
     phone |-> u.Phone,
     location |-> IF u.Location.Valid THEN u.Location.String ELSE "",
     facebook |-> u.Facebook,
     first_event |-> IF u.FirstEvent # <<>> THEN Format(u.FirstEvent) ELSE "",
     last_event |-> IF u.LastEvent # <<>> THEN Format(u.LastEvent) ELSE "",
     total_events |-> u.TotalEvents, status |-> u.Status,
     core_staff |-> u.CoreStaff, exclude_from_leaderboard |-> u.ExcludeFromLeaderboard,
     liberation_pledge |-> u.LiberationPledge, global_team_member |-> u.GlobalTeamMember,
     activist_level |-> u.ActivistLevel]

buildUserJSONArray(users) == [k \in 1..Len(users) |-> buildUserJSON(users[k])]

\* getUsers: WHERE name = ? only when name != "", ORDER BY name.
getUsers(table, name, fail) ==
    IF fail THEN [users |-> <<>>, err |-> "StoreError"]
    ELSE LET S == IF name # EmptyName THEN IdsNamed(table, name) ELSE DOMAIN table
             ids == OrderByName(table, S)
         IN [users |-> [k \in 1..Len(ids) |-> User(ids[k], table[ids[k]])], err |-> "nil"]

GetUser(table, name, fail) ==
    LET r == getUsers(table, name, fail)
    IN IF r.err # "nil" THEN [user |-> ZeroUser, err |-> r.err]
       ELSE IF Len(r.users) = 0 THEN [user |-> ZeroUser, err |-> "NotFound"]
       ELSE IF Len(r.users) > 1 THEN [user |-> ZeroUser, err |-> "TooMany"]
       ELSE [user |-> r.users[1], err |-> "nil"]

\* GetUsersExtra: WHERE a.id = ? only when userID != 0, GROUP BY a.id (rows in key
\* order), then Status is computed for every row.
GetUsersExtra(table, att, userID, fail) ==
    IF fail THEN [users |-> <<>>, err |-> "StoreError"]
    ELSE LET S == IF userID # 0 THEN {i \in DOMAIN table : i = userID} ELSE DOMAIN table
             ids == SortAsc(S)
             row(i) == UserExtra(i, table[i], FirstEventOf(att, {i}), LastEventOf(att, {i}),
                                 TotalEventsOf(att, {i}), "")
         IN [users |-> [k \in 1..Len(ids) |->
                          [row(ids[k]) EXCEPT !.Status =
                              getStatus(row(ids[k]).FirstEvent, row(ids[k]).LastEvent,
                                        row(ids[k]).TotalEvents)]],
             err |-> "nil"]

getUsersJSON(table, att, userID, fail) ==
    LET r == GetUsersExtra(table, att, userID, fail)
    IN IF r.err # "nil" THEN [users |-> <<>>, err |-> r.err]
       ELSE [users |-> buildUserJSONArray(r.users), err |-> "nil"]

\* GetUserJSON indexes users[0] without a length check: an empty result panics.
GetUserJSON(table, att, userID, fail) ==
    LET r == getUsersJSON(table, att, userID, fail)
    IN IF r.err # "nil" THEN [users |-> <<>>, err |-> r.err, panic |-> FALSE]
       ELSE IF Len(r.users) = 0 THEN [users |-> <<>>, err |-> "nil", panic |-> TRUE]
       ELSE [users |-> <<r.users[1]>>, err |-> "nil", panic |-> FALSE]

InRangeInclusive(rowName, name, order) ==
    IF name # EmptyName
    THEN IF order = descOrder THEN rowName <= name ELSE rowName >= name
    ELSE TRUE

\* The WHERE clause of getUserRange.
InRange(rowName, name, order) ==
    IF name # EmptyName
    THEN IF order = descOrder THEN rowName < name ELSE rowName > name
    ELSE TRUE

\* The names getUserRange returns: GROUP BY a.name ORDER BY a.name [desc] [LIMIT ?].
RangeNames(table, name, order, limit) ==
    LET groups == {table[i].name : i \in {j \in DOMAIN table : InRange(table[j].name, name, order)}}
        sorted == IF order = descOrder THEN SortDesc(groups) ELSE SortAsc(groups)
    IN IF limit > 0 THEN SubSeq(sorted, 1, Min(limit, Len(sorted))) ELSE sorted

\* The row a group shows for its non-aggregated columns: any row of the group.
GroupRows(table, names) == {rep \in [names -> DOMAIN table] : \A n \in names : table[rep[n]].name = n}

\* getUserRange: one row per name; the aggregates span the whole group; Status is
\* never assigned and keeps the zero value "".
getUserRange(table, att, name, order, limit, rep, fail) ==
    IF fail THEN [users |-> <<>>, err |-> "StoreError"]
    ELSE LET ns == RangeNames(table, name, order, limit)
             row(n) == UserExtra(rep[n], table[rep[n]], FirstEventOf(att, IdsNamed(table, n)),
                                 LastEventOf(att, IdsNamed(table, n)),
                                 TotalEventsOf(att, IdsNamed(table, n)), "")
         IN [users |-> [k \in 1..Len(ns) |-> row(ns[k])], err |-> "nil"]

ValidOrderLowerOnly(order) == ~(order < ascOrder)

\* The order check of GetUserRangeJSON.
ValidOrder(order) == ~(order # descOrder /\ order # ascOrder)

GetUserRangeJSON(table, att, name, order, limit, rep, fail) ==
    IF ~ValidOrder(order) THEN [users |-> <<>>, err |-> "Validation", queries |-> 0]
    ELSE LET r == getUserRange(table, att, name, order, limit, rep, fail)
         IN IF r.err # "nil" THEN [users |-> <<>>, err |-> r.err, queries |-> 1]
            ELSE [users |-> buildUserJSONArray(r.users), err |-> "nil", queries |-> 1]

\* --------------------------------------------------------- initial states
NoResp == [op |-> "none"]

IdleClient == [state |-> "idle", order |-> ascOrder, k |-> 1, anchor |-> EmptyName, names |-> <<>>]

\* Attendance is owned by the events collaborator; three fixtures of it.
Attendances ==
    {[i \in Ids |-> {e \in Events : (e + i) % 2 = s}] : s \in 0..1}
        \cup {[i \in Ids |-> IF i = 1 THEN Events ELSE {}]}

NoAttendance == [i \in Ids |-> {}]

\* Tables of n default rows with ids 1..n.
Tables(unique) ==
    UNION {{[i \in 1..n |-> DefaultRow(f[i])] :
              f \in {g \in [1..n -> Names] : unique => \A a, b \in 1..n : a # b => g[a] # g[b]}} :
           n \in 0..MaxRows}

NoHist == [had |-> FALSE, rows |-> 0, fault |-> FALSE, attempted |-> FALSE, failedAt |-> "none"]

NoRet == [user |-> ZeroUser, err |-> "nil"]

InitGoc ==
    /\ pc = [p \in Procs |-> "idle"]
    /\ arg = [p \in Procs |-> EmptyName]
    /\ tx = [p \in Procs |-> NoRows]
    /\ newUser = [p \in Procs |-> ZeroUser]
    /\ ret = [p \in Procs |-> NoRet]
    /\ hist = [p \in Procs |-> NoHist]
    /\ made = [n \in Names |-> 0]

InitStore ==
    /\ uniqueName \in BOOLEAN
    /\ activists \in Tables(uniqueName)
    /\ nextId = Cardinality(DOMAIN activists) + 1
    /\ attendance \in Attendances

InitRead == InitStore /\ InitGoc /\ resp = NoResp /\ pg = IdleClient

\* ---------------------------------------------- single-statement operations
CallGetUser(name) ==
    /\ resp.op = "none"
    /\ \E fail \in BOOLEAN :
         resp' = [op |-> "GetUser", name |-> name, fail |-> fail,
                  out |-> GetUser(activists, name, fail)]
    /\ UNCHANGED <<storeVars, gocVars, pg>>

CallGetUserJSON(userID) ==
    /\ resp.op = "none"
    /\ \E fail \in BOOLEAN :
         resp' = [op |-> "GetUserJSON", userID |-> userID, fail |-> fail,
                  out |-> GetUserJSON(activists, attendance, userID, fail)]
    /\ UNCHANGED <<storeVars, gocVars, pg>>

CallGetUsersJSON ==
    /\ resp.op = "none"
    /\ \E fail \in BOOLEAN :
         resp' = [op |-> "GetUsersJSON", fail |-> fail,
                  out |-> getUsersJSON(activists, attendance, 0, fail)]
    /\ UNCHANGED <<storeVars, gocVars, pg>>

CallGetUserRangeJSON(name, order, limit) ==
    /\ resp.op = "none"
    /\ \E fail \in BOOLEAN :
         \E rep \in GroupRows(activists, {table_n \in Names :
                        \E k \in DOMAIN RangeNames(activists, name, order, limit) :
                            RangeNames(activists, name, order, limit)[k] = table_n}) :
            resp' = [op |-> "GetUserRangeJSON", name |-> name, order |-> order,
                     limit |-> limit, fail |-> fail,
                     out |-> GetUserRangeJSON(activists, attendance, name, order, limit, rep, fail)]
    /\ UNCHANGED <<storeVars, gocVars, pg>>

\* The caller takes the response.
Return ==
    /\ resp.op # "none"
    /\ resp' = NoResp
    /\ UNCHANGED <<storeVars, gocVars, pg>>

NextRead ==
    \/ \E name \in Names : CallGetUser(name)
    \/ \E userID \in 0..(MaxRows + 1) : CallGetUserJSON(userID)
    \/ CallGetUsersJSON
    \/ \E name \in Names, order \in Orders, limit \in Limits : CallGetUserRangeJSON(name, order, limit)
    \/ Return

SpecRead == InitRead /\ [][NextRead]_vars

\* ------------------------------------------------------- GetOrCreateUser
CommitDropped(table, own) == table

\* tx.Commit(): the transaction's rows become visible to every reader.
Commit(table, own) == Visible(table, own)

RollbackKeeps(table, own) == Visible(table, own)

\* tx.Rollback(): the transaction's rows are discarded.
Rollback(table, own) == table

\* INSERT under a unique key on name fails when a committed row has the name.
Duplicate(table, unique, name) == unique /\ IdsNamed(table, name) # {}

\* INSERT under a unique key on name waits while another open transaction holds the name.
Locked(p, unique, name) == unique /\ \E q \in Procs \ {p} : IdsNamed(tx[q], name) # {}

Fail(p, step, err) ==
    /\ pc' = [pc EXCEPT ![p] = "done"]
    /\ ret' = [ret EXCEPT ![p] = [user |-> ZeroUser, err |-> err]]
    /\ hist' = [hist EXCEPT ![p].failedAt = step, ![p].fault = TRUE]

\* user, err := GetUser(db, name); if err == nil { return user, nil }
GocLookup(p, name) ==
    /\ pc[p] = "idle"
    /\ arg' = [arg EXCEPT ![p] = name]
    /\ \E fail \in BOOLEAN :
         LET r == GetUser(activists, name, fail)
         IN /\ hist' = [hist EXCEPT ![p] =
                          [had |-> IdsNamed(activists, name) # {},
                           rows |-> Cardinality(DOMAIN activists),
                           fault |-> fail, attempted |-> FALSE, failedAt |-> "none"]]
            /\ IF r.err = "nil"
               THEN /\ ret' = [ret EXCEPT ![p] = r]
                    /\ pc' = [pc EXCEPT ![p] = "done"]
               ELSE /\ ret' = ret
                    /\ pc' = [pc EXCEPT ![p] = "begin"]
    /\ UNCHANGED <<storeVars, tx, newUser, made, resp, pg>>

\* tx, err := db.Beginx()
GocBegin(p) ==
    /\ pc[p] = "begin"
    /\ \E fail \in BOOLEAN :
         IF fail
         THEN Fail(p, "begin", "StoreError")
         ELSE /\ pc' = [pc EXCEPT ![p] = "insert"]
              /\ UNCHANGED <<ret, hist>>
    /\ UNCHANGED <<storeVars, arg, tx, newUser, made, resp, pg>>

\* _, err = tx.Exec("INSERT INTO activists (name) VALUES (?)", name)
GocInsert(p) ==
    /\ pc[p] = "insert"
    /\ nextId <= MaxInserts
    /\ \E fail \in BOOLEAN :
         IF fail \/ (~Locked(p, uniqueName, arg[p]) /\ Duplicate(activists, uniqueName, arg[p]))
         THEN /\ pc' = [pc EXCEPT ![p] = "done"]
              /\ ret' = [ret EXCEPT ![p] = [user |-> ZeroUser,
                                            err |-> IF fail THEN "StoreError" ELSE "Duplicate"]]
              /\ hist' = [hist EXCEPT ![p].failedAt = "insert", ![p].attempted = TRUE,
                                      ![p].fault = hist[p].fault \/ fail]
              /\ activists' = Rollback(activists, tx[p])
              /\ tx' = [tx EXCEPT ![p] = NoRows]
              /\ UNCHANGED nextId
         ELSE /\ ~Locked(p, uniqueName, arg[p])
              /\ tx' = [tx EXCEPT ![p] = (nextId :> DefaultRow(arg[p]))]
              /\ nextId' = nextId + 1
              /\ pc' = [pc EXCEPT ![p] = "reread"]
              /\ hist' = [hist EXCEPT ![p].attempted = TRUE]
              /\ UNCHANGED <<activists, ret>>
    /\ UNCHANGED <<attendance, uniqueName, arg, newUser, made, resp, pg>>

\* err = tx.Get(&newUser, selectUserBaseQuery + " WHERE name = ? ", name): the first
\* row of the result, which has no ORDER BY.
GocReread(p) ==
    /\ pc[p] = "reread"
    /\ \E fail \in BOOLEAN :
         LET vis == Visible(activists, tx[p])
             S == IdsNamed(vis, arg[p])
         IN IF fail \/ S = {}
            THEN /\ pc' = [pc EXCEPT ![p] = "done"]
                 /\ ret' = [ret EXCEPT ![p] = [user |-> ZeroUser,
                                               err |-> IF fail THEN "StoreError" ELSE "NoRows"]]
                 /\ hist' = [hist EXCEPT ![p].failedAt = "reread",
                                         ![p].fault = hist[p].fault \/ fail]
                 /\ activists' = Rollback(activists, tx[p])
                 /\ tx' = [tx EXCEPT ![p] = NoRows]
                 /\ UNCHANGED newUser
            ELSE /\ \E i \in S : newUser' = [newUser EXCEPT ![p] = User(i, vis[i])]
                 /\ pc' = [pc EXCEPT ![p] = "commit"]
                 /\ UNCHANGED <<activists, tx, ret, hist>>
    /\ UNCHANGED <<nextId, attendance, uniqueName, arg, made, resp, pg>>

\* if err := tx.Commit(); err != nil { tx.Rollback(); ... }; return newUser, nil
GocCommit(p) ==
    /\ pc[p] = "commit"
    /\ \E fail \in BOOLEAN :
         IF fail
         THEN /\ ret' = [ret EXCEPT ![p] = [user |-> ZeroUser, err |-> "StoreError"]]
              /\ hist' = [hist EXCEPT ![p].failedAt = "commit", ![p].fault = TRUE]
              /\ activists' = Rollback(activists, tx[p])
              /\ UNCHANGED made
         ELSE /\ ret' = [ret EXCEPT ![p] = [user |-> newUser[p], err |-> "nil"]]
              /\ made' = IF made[arg[p]] = 0 THEN [made EXCEPT ![arg[p]] = newUser[p].ID] ELSE made
              /\ UNCHANGED hist
              /\ activists' = Commit(activists, tx[p])
    /\ pc' = [pc EXCEPT ![p] = "done"]
    /\ tx' = [tx EXCEPT ![p] = NoRows]
    /\ UNCHANGED <<nextId, attendance, uniqueName, arg, newUser, resp, pg>>

\* The call has returned; the caller may call again.
GocReturn(p) ==
    /\ pc[p] = "done"
    /\ pc' = [pc EXCEPT ![p] = "idle"]
    /\ arg' = [arg EXCEPT ![p] = EmptyName]
    /\ newUser' = [newUser EXCEPT ![p] = ZeroUser]
    /\ ret' = [ret EXCEPT ![p] = NoRet]
    /\ hist' = [hist EXCEPT ![p] = NoHist]
    /\ UNCHANGED <<storeVars, tx, made, resp, pg>>

InitEmptyStore ==
    /\ uniqueName \in BOOLEAN
    /\ activists = NoRows
    /\ nextId = 1
    /\ attendance = NoAttendance

InitCalls == InitEmptyStore /\ InitGoc /\ resp = NoResp /\ pg = IdleClient

\* Concurrent callers of GetOrCreateUser.
NextGoc ==
    \E p \in Procs :
        \/ \E name \in Names : GocLookup(p, name)
        \/ GocBegin(p)
        \/ GocInsert(p)
        \/ GocReread(p)
        \/ GocCommit(p)
        \/ GocReturn(p)

SpecGoc == InitCalls /\ [][NextGoc]_vars

\* One caller of GetOrCreateUser: every call runs to its end before the next starts.
NextSeq ==
    \/ \E name \in Names : GocLookup(1, name)
    \/ GocBegin(1)
    \/ GocInsert(1)
    \/ GocReread(1)
    \/ GocCommit(1)
    \/ GocReturn(1)

SpecSeq == InitCalls /\ [][NextSeq]_vars

\* ------------------------------------------------------------ properties
Finished(p) == pc[p] = "done"

\* The call of p took the GetUser result as it came, with no store failure on its way.
Undisturbed(p) == Finished(p) /\ ~hist[p].fault

\* C1: a sequential GetOrCreate(name) with no row of that name creates exactly one
\* row with that name and returns it; a later sequential GetOrCreate(name) returns
\* the row the first one made (same id) and leaves the number of rows unchanged.
C1_GetOrCreateIdempotent ==
    Undisturbed(1) =>
        /\ ~hist[1].had =>
              /\ ret[1].err = "nil"
              /\ ret[1].user.Name = arg[1]
              /\ IdsNamed(activists, arg[1]) = {ret[1].user.ID}
              /\ Cardinality(DOMAIN activists) = hist[1].rows + 1
        /\ (hist[1].had /\ made[arg[1]] # 0) =>
              /\ ret[1].err = "nil"
              /\ ret[1].user.ID = made[arg[1]]
              /\ Cardinality(DOMAIN activists) = hist[1].rows

\* C2: two concurrent GetOrCreate calls of one new name that both missed the row at
\* the lookup and both attempted the insert end with two rows of that name when the
\* store enforces no uniqueness, and with exactly one successful call and one
\* failed call (one row) when it does.
RacedOn(p, q) ==
    /\ p # q /\ Undisturbed(p) /\ Undisturbed(q)
    /\ arg[p] = arg[q]
    /\ ~hist[p].had /\ ~hist[q].had
    /\ hist[p].attempted /\ hist[q].attempted

C2_ConcurrentRace ==
    \A p, q \in Procs :
        RacedOn(p, q) =>
            IF uniqueName
            THEN /\ (ret[p].err = "nil") # (ret[q].err = "nil")
                 /\ Cardinality(IdsNamed(activists, arg[p])) = 1
            ELSE /\ ret[p].err = "nil" /\ ret[q].err = "nil"
                 /\ Cardinality(IdsNamed(activists, arg[p])) = 2

C2_Witness == \E p, q \in Procs : RacedOn(p, q) /\ ~uniqueName /\ Cardinality(IdsNamed(activists, arg[p])) = 2

\* C3: a row written in a transaction is visible to no other reader while the
\* transaction is open, and a GetOrCreate call that fails at the insert, the re-read
\* or the commit leaves the committed table as it was and its transaction empty.
FailsAtWrite(p) ==
    /\ pc[p] \in {"insert", "reread", "commit"}
    /\ pc'[p] = "done"
    /\ ret'[p].err # "nil"

C3_NoPartialRow ==
    /\ [](\A p \in Procs : (DOMAIN tx[p]) \cap (DOMAIN activists) = {})
    /\ [][\A p \in Procs : FailsAtWrite(p) => (activists' = activists /\ tx'[p] = NoRows)]_vars

C3_Witness ==
    \E p \in Procs : Finished(p) /\ hist[p].failedAt \in {"reread", "commit"} /\ ret[p].err # "nil"

Answered(op) == resp.op = op /\ ~resp.fail

\* C4: GetByName fails with not-found on zero rows of the name, returns the row on
\* exactly one, and fails with an ambiguous-result error on two or more.
C4_GetByName ==
    Answered("GetUser") =>
        LET S == IdsNamed(activists, resp.name)
        IN /\ Cardinality(S) = 0 => resp.out.err = "NotFound"
           /\ Cardinality(S) = 1 =>
                 /\ resp.out.err = "nil"
                 /\ resp.out.user.Name = resp.name
                 /\ resp.out.user.ID \in S
           /\ Cardinality(S) >= 2 => resp.out.err = "TooMany"

\* The rows (names) strictly after the anchor in the requested direction.
AfterAnchor(n, anchor, order) ==
    \/ anchor = EmptyName
    \/ order = ascOrder /\ n > anchor
    \/ order = descOrder /\ n < anchor

Precedes(a, b, order) == IF order = descOrder THEN a > b ELSE a < b

RangeAnswered == Answered("GetUserRangeJSON") /\ resp.order \in {ascOrder, descOrder}

\* C5 as claimed: ListRange returns every row after the anchor, sorted by name in
\* the requested direction and cut to the first `limit` rows when limit > 0.
C5_ListRangeAllRows ==
    RangeAnswered =>
        LET out == resp.out.users
            rows == {i \in DOMAIN activists : AfterAnchor(activists[i].name, resp.name, resp.order)}
            want == IF resp.limit > 0 THEN Min(resp.limit, Cardinality(rows)) ELSE Cardinality(rows)
        IN /\ resp.out.err = "nil"
           /\ Len(out) = want
           /\ \A k \in 1..Len(out) : out[k].id \in rows /\ activists[out[k].id].name = out[k].name
           /\ \A k, l \in 1..Len(out) : k < l => out[k].id # out[l].id
           /\ \A k, l \in 1..Len(out) : k < l => ~Precedes(out[l].name, out[k].name, resp.order)
           /\ \A i \in rows : \A k \in 1..Len(out) :
                 (\A l \in 1..Len(out) : out[l].id # i) => ~Precedes(activists[i].name, out[k].name, resp.order)
           /\ resp.name # EmptyName => \A k \in 1..Len(out) : out[k].name # resp.name

\* C5 as amended: ListRange returns one row per distinct name after the anchor (a row
\* of the store that has the name), sorted strictly by name in the requested
\* direction and cut to the first `limit` names when limit > 0, so min(limit,
\* distinct eligible names) rows; the anchor name is never returned.
C5_ListRangeByName ==
    RangeAnswered =>
        LET out == resp.out.users
            names == {activists[i].name : i \in {j \in DOMAIN activists :
                          AfterAnchor(activists[j].name, resp.name, resp.order)}}
            want == IF resp.limit > 0 THEN Min(resp.limit, Cardinality(names)) ELSE Cardinality(names)
        IN /\ resp.out.err = "nil"
           /\ Len(out) = want
           /\ \A k \in 1..Len(out) : out[k].name \in names /\ out[k].id \in IdsNamed(activists, out[k].name)
           /\ \A k, l \in 1..Len(out) : k < l => Precedes(out[k].name, out[l].name, resp.order)
           /\ \A n \in names : \A k \in 1..Len(out) :
                 (\A l \in 1..Len(out) : out[l].name # n) => Precedes(out[k].name, n, resp.order)
           /\ resp.name # EmptyName => \A k \in 1..Len(out) : out[k].name # resp.name

C5_Witness ==
    /\ RangeAnswered /\ resp.name # EmptyName /\ resp.limit > 0
    /\ Len(resp.out.users) = resp.limit
    /\ \E i \in DOMAIN activists :
          /\ AfterAnchor(activists[i].name, resp.name, resp.order)
          /\ \A k \in 1..Len(resp.out.users) : resp.out.users[k].name # activists[i].name
    /\ \E i \in DOMAIN activists : activists[i].name = resp.name

\* C6: an order other than ascending and descending is answered with a validation
\* error and no rows, and no statement is sent to the store.
C6_InvalidOrder ==
    (resp.op = "GetUserRangeJSON" /\ resp.order # ascOrder /\ resp.order # descOrder) =>
        /\ resp.out.err = "Validation"
        /\ resp.out.users = <<>>
        /\ resp.out.queries = 0

C6_Witness == resp.op = "GetUserRangeJSON" /\ resp.order > descOrder /\ resp.out.err = "Validation"

\* C8: GetByID of an id no row has returns a NotFound error and no record, and the
\* call does not abort.
C8_GetByIDNotFound ==
    (Answered("GetUserJSON") /\ resp.userID \notin DOMAIN activists) =>
        /\ ~resp.out.panic
        /\ resp.out.err = "NotFound"
        /\ resp.out.users = <<>>

\* C9: the status of every record ListRange returns equals the status GetByID
\* returns for the same activist, which is getStatus of the activist's aggregates.
C9_RangeStatus ==
    (RangeAnswered /\ resp.out.err = "nil") =>
        \A k \in 1..Len(resp.out.users) :
            LET id == resp.out.users[k].id
                byID == GetUserJSON(activists, attendance, id, FALSE).users[1]
            IN /\ resp.out.users[k].status = byID.status
               /\ byID.status = getStatus(FirstEventOf(attendance, {id}), LastEventOf(attendance, {id}),
                                          TotalEventsOf(attendance, {id}))

\* -------------------------------------------------------- UpdateActivistData
\* A row with every column set to a non-default value.
FilledRow(name) ==
    [name |-> name, email |-> "a@x", chapter |-> "sf", phone |-> "555",
     location |-> [Valid |-> TRUE, String |-> "bay"], facebook |-> "fb", activist_level |-> "organizer",
     exclude_from_leaderboard |-> 1, core_staff |-> 1,
     global_team_member |-> 1, liberation_pledge |-> 1]

\* The UserExtra values a caller passes to UpdateActivistData.
UpdateInputs ==
    {UserExtra(id, row, <<>>, <<>>, 0, "") :
        id \in 0..(MaxRows + 1),
        row \in {DefaultRow(n) : n \in Names} \cup {FilledRow(n) : n \in Names}}

UpdatedRowNoFacebook(row, user) ==
    [row EXCEPT !.name = user.Name, !.email = user.Email, !.chapter = user.Chapter,
                !.phone = user.Phone, !.location = user.Location,
                !.activist_level = user.ActivistLevel,
                !.exclude_from_leaderboard = user.ExcludeFromLeaderboard,
                !.core_staff = user.CoreStaff, !.global_team_member = user.GlobalTeamMember,
                !.liberation_pledge = user.LiberationPledge]

\* The SET clause of the UPDATE.
UpdatedRow(row, user) ==
    [row EXCEPT !.name = user.Name, !.email = user.Email, !.chapter = user.Chapter,
                !.phone = user.Phone, !.location = user.Location, !.facebook = user.Facebook,
                !.activist_level = user.ActivistLevel,
                !.exclude_from_leaderboard = user.ExcludeFromLeaderboard,
                !.core_staff = user.CoreStaff, !.global_team_member = user.GlobalTeamMember,
                !.liberation_pledge = user.LiberationPledge]

\* UPDATE under a unique key on name fails when another row has the new name.
NameTaken(table, unique, user) ==
    /\ unique
    /\ user.ID \in DOMAIN table
    /\ \E j \in (DOMAIN table) \ {user.ID} : table[j].name = user.Name

\* UPDATE activists SET ... WHERE id = :id; returns user.ID, or 0 and the error.
UpdateActivistData(table, unique, user, fail) ==
    IF fail THEN [table |-> table, id |-> 0, err |-> "StoreError"]
    ELSE IF NameTaken(table, unique, user) THEN [table |-> table, id |-> 0, err |-> "Duplicate"]
    ELSE [table |-> [i \in DOMAIN table |-> IF i = user.ID THEN UpdatedRow(table[i], user) ELSE table[i]],
          id |-> user.ID, err |-> "nil"]

CallUpdateActivistData(user) ==
    /\ resp.op = "none"
    /\ \E fail \in BOOLEAN :
         LET r == UpdateActivistData(activists, uniqueName, user, fail)
         IN /\ activists' = r.table
            /\ resp' = [op |-> "UpdateActivistData", user |-> user, fail |-> fail,
                        before |-> activists, out |-> [id |-> r.id, err |-> r.err]]
    /\ UNCHANGED <<nextId, attendance, uniqueName, gocVars, pg>>

NextUpd ==
    \/ \E user \in UpdateInputs : CallUpdateActivistData(user)
    \/ Return

SpecUpd == InitRead /\ [][NextUpd]_vars

\* What GetByID reads back equals what was written, column by column.
ReadsBack(got, user) ==
    /\ got.Name = user.Name /\ got.Email = user.Email /\ got.Chapter = user.Chapter
    /\ got.Phone = user.Phone /\ got.Location = user.Location /\ got.Facebook = user.Facebook
    /\ got.ActivistLevel = user.ActivistLevel
    /\ got.ExcludeFromLeaderboard = user.ExcludeFromLeaderboard
    /\ got.CoreStaff = user.CoreStaff /\ got.GlobalTeamMember = user.GlobalTeamMember
    /\ got.LiberationPledge = user.LiberationPledge

RoundTrips ==
    LET got == GetUsersExtra(activists, attendance, resp.user.ID, FALSE)
    IN /\ resp.out.err = "nil"
       /\ resp.out.id = resp.user.ID
       /\ got.err = "nil" /\ Len(got.users) = 1
       /\ got.users[1].ID = resp.user.ID
       /\ ReadsBack(got.users[1], resp.user)
       /\ DOMAIN activists = DOMAIN resp.before
       /\ \A j \in (DOMAIN activists) \ {resp.user.ID} : activists[j] = resp.before[j]

UpdatedExisting == Answered("UpdateActivistData") /\ resp.user.ID \in DOMAIN resp.before

\* C7 as claimed: UpdateFull of a record with an existing id returns the id, a
\* following GetByID reads back every mutable field as written, and every other
\* row is unchanged.
C7_UpdateRoundTrip == UpdatedExisting => RoundTrips

\* C7 as amended: the same, unless the store enforces unique names and another row
\* already has the record's name; then UpdateFull returns an error and id 0 and
\* changes no row.
C7_UpdateRoundTripUnlessTaken ==
    UpdatedExisting =>
        IF NameTaken(resp.before, uniqueName, resp.user)
        THEN resp.out.err # "nil" /\ resp.out.id = 0 /\ activists = resp.before
        ELSE RoundTrips

C7_Witness ==
    /\ UpdatedExisting /\ resp.out.err = "nil"
    /\ resp.before[resp.user.ID] # activists[resp.user.ID]
    /\ resp.user.Facebook # ""
    /\ Cardinality(DOMAIN activists) > 1

\* ------------------------------------------------------ a paging client
\* The client of the keyset pagination: it starts with no anchor, asks for pages of
\* k rows, takes the name of a page's last row as the next anchor, and stops at the
\* first page shorter than k.
PageStart(order, k) ==
    /\ pg.state = "idle"
    /\ pg' = [state |-> "paging", order |-> order, k |-> k, anchor |-> EmptyName, names |-> <<>>]
    /\ UNCHANGED <<storeVars, gocVars, resp>>

PageNext ==
    /\ pg.state = "paging"
    /\ Len(pg.names) <= MaxRows
    /\ \E fail \in BOOLEAN :
         \E rep \in GroupRows(activists, {n \in Names :
                        \E i \in DOMAIN RangeNames(activists, pg.anchor, pg.order, pg.k) :
                            RangeNames(activists, pg.anchor, pg.order, pg.k)[i] = n}) :
            LET r == GetUserRangeJSON(activists, attendance, pg.anchor, pg.order, pg.k, rep, fail)
                page == [i \in 1..Len(r.users) |-> r.users[i].name]
            IN IF r.err # "nil"
               THEN pg' = [pg EXCEPT !.state = "error"]
               ELSE IF Len(page) < pg.k
               THEN pg' = [pg EXCEPT !.state = "done", !.names = pg.names \o page]
               ELSE pg' = [pg EXCEPT !.anchor = page[Len(page)], !.names = pg.names \o page]
    /\ UNCHANGED <<storeVars, gocVars, resp>>

NextPage ==
    \/ \E order \in {ascOrder, descOrder}, k \in 1..MaxLimit : PageStart(order, k)
    \/ PageNext

SpecPage == InitRead /\ [][NextPage]_vars

\* C10: the pages the client receives never repeat a name, and when the client
\* stops they hold every distinct name of the store once, in the requested order.
C10_Pagination ==
    /\ \A i, j \in 1..Len(pg.names) : i < j => pg.names[i] # pg.names[j]
    /\ pg.state = "done" =>
          pg.names = (IF pg.order = descOrder
                      THEN SortDesc({activists[i].name : i \in DOMAIN activists})
                      ELSE SortAsc({activists[i].name : i \in DOMAIN activists}))

====
